---- MODULE Spec2Model ----
(***************************************************************************)
(* Tid Hotels PMS: the state-synchronisation core of src/api/app.py (the   *)
(* in-memory store hotel_data, the id counters, the durable file           *)
(* hotel_data.json, the sync log, the data_update broadcast) and the       *)
(* guest relationships declared in src/api/models.py.                      *)
(*                                                                         *)
(* The server runs with async_mode='threading' (app.py:15): every request  *)
(* is served by its own thread and app.py takes no lock.  A thread's       *)
(* position inside clear_data is pc[t]; one step is taken per statement of *)
(* clear_data and of broadcast_update.  The helpers add_sync_log,          *)
(* get_next_id and save_data are one step each.                            *)
(*                                                                         *)
(* Numbers: taxSettings.rate is kept in tenths (7.5 is 75); a sync-log     *)
(* timestamp ('%H:%M:%S') is kept as a number of seconds.                  *)
(***************************************************************************)
EXTENDS Integers, Sequences, FiniteSets, TLC

VARIABLES
    hotel_data,   \* app.py:36   the in-memory store
    id_counters,  \* app.py:38   next id per entity type
    file,         \* app.py:18   contents of DATA_FILE on disk
    phase,        \* "boot" (module imported, load_data not yet run), "serving", "crashed"
    pc,           \* position of each request thread inside clear_data
    console,      \* what this process has printed about failures
    nreq,         \* requests, helper calls and restarts so far (bounded by MaxRequests)
    pre,          \* per thread: hotel_data when its clear_data began
    post,         \* per thread: hotel_data right after its own sync-log append
    sent,         \* per thread: payload of the last data_update its clear_data emitted
    emits,        \* per thread: data_update broadcasts its clear_data has emitted
    steps,        \* per thread: the steps its clear_data has performed, in order
    reads,        \* per thread: the last snapshot a reader got while its clear_data was in flight
    returned,     \* per entity: ids get_next_id has returned in this process, in order
    nclears,      \* clear_data calls completed in this process
    lastOp,       \* the operation that took the last step
    lastSaved,    \* the memory (store and counters) that the last save_data wrote
    saveFailed,   \* per thread: whether the save_data of its clear_data failed
    db,           \* models.py: the rows of guests, rooms, transactions, loyalty_transactions
    deleted       \* guest ids deleted from db

vars == <<hotel_data, id_counters, file, phase, pc, console, nreq, pre, post, sent, emits, steps, reads, returned, nclears, lastOp,
          lastSaved, saveFailed, db, deleted>>

appVars == <<hotel_data, id_counters, file, phase, pc, console, nreq, pre, post, sent, emits, steps, reads, returned, nclears, lastOp,
             lastSaved, saveFailed>>

-----------------------------------------------------------------------------
(* Bounds of the model *)

MaxRequests == 3
MaxGuests == 2
MaxRows == 2

(* Program constant: the sync log's capacity, app.py:90 *)
MaxSyncLog == 100

(* The request threads: clear_data is the only handler of more than one    *)
(* step, and two threads give every interleaving of two of its runs.       *)
Threads == {1, 2}

Entities ==
    {"rooms", "guests", "reservations", "transactions", "loyaltyTransactions",
     "walkInTransactions", "orders", "employees", "maintenanceRequests", "roomTypes"}

(* The entity types the modelled callers of get_next_id ask for *)
InputEntities == {"guests", "rooms"}


Min(a, b) == IF a < b THEN a ELSE b

-----------------------------------------------------------------------------
(* Module-level data, app.py:20-49 *)

INITIAL_DATA ==
    [rooms |-> <<>>, guests |-> <<>>, reservations |-> <<>>, transactions |-> <<>>,
     loyaltyTransactions |-> <<>>, walkInTransactions |-> <<>>, orders |-> <<>>,
     employees |-> <<>>, syncLog |-> <<>>, maintenanceRequests |-> <<>>,
     roomTypes |-> <<>>,
     taxSettings |-> [isEnabled |-> TRUE, rate |-> 75],
     stopSell |-> {}]

InitialCounters == [e \in Entities |-> 1]

-----------------------------------------------------------------------------
(* Stores and files the program starts from.  hotel_data.json is written   *)
(* only by save_data, so a file found at startup holds a store some        *)
(* earlier run saved: any entities, a sync log of at most MaxSyncLog       *)
(* entries, newest first.                                                  *)

LogOf(n) ==
    [i \in 1..n |-> [timestamp |-> 40000 + (n - i), message |-> "Guest updated",
                     level |-> "info"]]

BusyStore(n) ==
    [rooms |-> <<[id |-> 1, number |-> "101", guestId |-> 1]>>,
     guests |-> <<[id |-> 1, name |-> "Ada"]>>,
     reservations |-> <<[id |-> 1]>>,
     transactions |-> <<[id |-> 1, guestId |-> 1]>>,
     loyaltyTransactions |-> <<[id |-> 1, guestId |-> 1]>>,
     walkInTransactions |-> <<[id |-> 1]>>,
     orders |-> <<[id |-> 1, roomId |-> 1]>>,
     employees |-> <<[id |-> 1]>>,
     syncLog |-> LogOf(n),
     maintenanceRequests |-> <<[id |-> 1, roomId |-> 1]>>,
     roomTypes |-> <<[id |-> 1, name |-> "Deluxe"]>>,
     taxSettings |-> [isEnabled |-> FALSE, rate |-> 100],
     stopSell |-> {<<"2025-01-01|Deluxe", TRUE>>}]

BusyCounters == [e \in Entities |-> 2]

(* What a file holds: kind "absent" (no file), "unreadable" (open or       *)
(* json.load raises), "nonobject" (valid JSON whose top level is no        *)
(* object, so .get raises), "object" (a JSON object with the given keys).  *)
FileOf(kind, keys, data, counters) ==
    [kind |-> kind, keys |-> keys, data |-> data, counters |-> counters]

NoFile == FileOf("absent", {}, INITIAL_DATA, InitialCounters)
UnreadableFile == FileOf("unreadable", {}, INITIAL_DATA, InitialCounters)
NonObjectFile == FileOf("nonobject", {}, INITIAL_DATA, InitialCounters)

InitialFiles ==
    {NoFile, UnreadableFile, NonObjectFile,
     FileOf("object", {}, INITIAL_DATA, InitialCounters),
     FileOf("object", {"data"}, BusyStore(2), InitialCounters),
     FileOf("object", {"data", "counters"}, BusyStore(MaxSyncLog - 1), BusyCounters),
     FileOf("object", {"data", "counters"}, BusyStore(MaxSyncLog), BusyCounters)}

NotSaved == [valid |-> FALSE, data |-> INITIAL_DATA, counters |-> InitialCounters]

NoRead == [taken |-> FALSE, snap |-> INITIAL_DATA]

EmptyDB ==
    [guests |-> {}, rooms |-> {}, transactions |-> {}, loyalty_transactions |-> {}]

-----------------------------------------------------------------------------
(* The state after the module body has run, before load_data (app.py:100)  *)

Init ==
    /\ hotel_data = INITIAL_DATA
    /\ id_counters = InitialCounters
    /\ file \in InitialFiles
    /\ phase = "boot"
    /\ pc = [t \in Threads |-> "idle"]
    /\ console = {}
    /\ nreq = 0
    /\ pre = [t \in Threads |-> INITIAL_DATA]
    /\ post = [t \in Threads |-> INITIAL_DATA]
    /\ sent = [t \in Threads |-> INITIAL_DATA]
    /\ emits = [t \in Threads |-> 0]
    /\ steps = [t \in Threads |-> <<>>]
    /\ reads = [t \in Threads |-> NoRead]
    /\ returned = [e \in Entities |-> <<>>]
    /\ nclears = 0
    /\ lastOp = "import"
    /\ lastSaved = NotSaved
    /\ saveFailed = [t \in Threads |-> FALSE]
    /\ db = EmptyDB
    /\ deleted = {}

-----------------------------------------------------------------------------
(* load_data, app.py:53-64 *)

(* Faulty variant: the 'counters' key of the document is ignored, so the   *)
(* counters stay at the module's initial values after a restart.           *)
Deserialized_without_counters(f, fallback_data, fallback_counters) ==
    [data |-> IF "data" \in f.keys THEN f.data ELSE fallback_data,
     counters |-> fallback_counters]

Deserialized(f, fallback_data, fallback_counters) ==
    [data |-> IF "data" \in f.keys THEN f.data ELSE fallback_data,
     counters |-> IF "counters" \in f.keys THEN f.counters ELSE fallback_counters]

(* Faulty variant: the exception of a failed load is not caught and the    *)
(* import of the module, hence the process, dies.                          *)
load_data_uncaught ==
    /\ phase = "boot"
    /\ lastOp' = "load_data"
    /\ CASE file.kind = "absent" ->
               /\ phase' = "serving"
               /\ UNCHANGED <<hotel_data, id_counters, console>>
         [] file.kind = "object" ->
               LET loaded == Deserialized(file, INITIAL_DATA, id_counters)
               IN /\ phase' = "serving"
                  /\ hotel_data' = loaded.data
                  /\ id_counters' = loaded.counters
                  /\ UNCHANGED console
         [] OTHER ->
               /\ phase' = "crashed"
               /\ UNCHANGED <<hotel_data, id_counters, console>>
    /\ UNCHANGED <<file, pc, nreq, pre, post, sent, emits, steps, reads,
                   returned, nclears, lastSaved, saveFailed, db, deleted>>

load_data ==
    /\ phase = "boot"
    /\ phase' = "serving"
    /\ lastOp' = "load_data"
    /\ CASE file.kind = "absent" ->
               UNCHANGED <<hotel_data, id_counters, console>>
         [] file.kind = "object" ->
               LET loaded == Deserialized(file, INITIAL_DATA, id_counters)
               IN /\ hotel_data' = loaded.data
                  /\ id_counters' = loaded.counters
                  /\ UNCHANGED console
         [] OTHER ->
               /\ console' = console \cup {"Error loading data"}
               /\ hotel_data' = INITIAL_DATA
               /\ UNCHANGED id_counters
    /\ UNCHANGED <<file, pc, nreq, pre, post, sent, emits, steps, reads,
                   returned, nclears, lastSaved, saveFailed, db, deleted>>

(* save_data, app.py:66-75.  The write succeeds ("ok"), or open() raises    *)
(* and the file stays as it was ("open_failed"), or the write raises       *)
(* after open() truncated the file, which leaves a partial document        *)
(* ("write_failed").  Either failure is caught and printed.                *)

SaveOutcomes == {"ok", "open_failed", "write_failed"}

Serialized(data, counters) == FileOf("object", {"data", "counters"}, data, counters)

save_data(outcome) ==
    /\ file' = CASE outcome = "ok" -> Serialized(hotel_data, id_counters)
                 [] outcome = "open_failed" -> file
                 [] OTHER -> UnreadableFile
    /\ console' = IF outcome = "ok" THEN console
                  ELSE console \cup {"Error saving data"}
    /\ lastSaved' = CASE outcome = "ok" ->
                           [valid |-> TRUE, data |-> hotel_data, counters |-> id_counters]
                      [] outcome = "open_failed" -> lastSaved
                      [] OTHER -> NotSaved

(* datetime.now() at app.py:85.  The wall clock is read in seconds and is  *)
(* taken to advance by one with every request the server accepts.          *)
Now == 50000 + nreq

(* Faulty variant: the slice keeps the last MaxSyncLog entries ([-100:]),   *)
(* which drops the entry just inserted instead of the oldest one.          *)
add_sync_log_keeps_oldest(data, message, level, now) ==
    LET log_entry == [timestamp |-> now, message |-> message, level |-> level]
        inserted == <<log_entry>> \o data.syncLog
    IN [data EXCEPT !.syncLog = IF Len(inserted) > MaxSyncLog
                                THEN SubSeq(inserted, Len(inserted) - MaxSyncLog + 1,
                                            Len(inserted))
                                ELSE inserted]

(* add_sync_log, app.py:82-91 *)
add_sync_log(data, message, level, now) ==
    LET log_entry == [timestamp |-> now, message |-> message, level |-> level]
        inserted == <<log_entry>> \o data.syncLog
    IN [data EXCEPT !.syncLog = IF Len(inserted) > MaxSyncLog
                                THEN SubSeq(inserted, 1, MaxSyncLog)
                                ELSE inserted]

(* Faulty variant: the counter is read but not advanced. *)
get_next_id_counters_stuck(counters, entity) == counters

(* get_next_id, app.py:93-97: the counters after the call; the id returned *)
(* is the counter before it                                                *)
get_next_id_counters(counters, entity) == [counters EXCEPT ![entity] = @ + 1]

(* The dictionary clear_data builds, app.py:113-127 *)
ClearedStore(data) ==
    [rooms |-> <<>>, guests |-> <<>>, reservations |-> <<>>, transactions |-> <<>>,
     loyaltyTransactions |-> <<>>, walkInTransactions |-> <<>>, orders |-> <<>>,
     employees |-> <<>>, syncLog |-> <<>>, maintenanceRequests |-> <<>>,
     roomTypes |-> data.roomTypes,
     taxSettings |-> data.taxSettings,
     stopSell |-> {}]

-----------------------------------------------------------------------------
(* POST /api/data/clear, app.py:109-130, one step per statement.  The      *)
(* request threads are interchangeable, so a new request is given to the   *)
(* lowest-numbered idle thread.                                            *)

Ghosts == <<pre, post, sent, emits, steps, reads>>

(* app.py:113-127: hotel_data is rebound to the cleared dictionary *)
clear_data_store(t) ==
    /\ phase = "serving"
    /\ pc[t] = "idle"
    /\ \A u \in Threads : u < t => pc[u] # "idle"
    /\ nreq < MaxRequests
    /\ nreq' = nreq + 1
    /\ hotel_data' = ClearedStore(hotel_data)
    /\ pc' = [pc EXCEPT ![t] = "clear_log"]
    /\ pre' = [pre EXCEPT ![t] = hotel_data]
    /\ steps' = [steps EXCEPT ![t] = <<"store">>]
    /\ reads' = [reads EXCEPT ![t] = NoRead]
    /\ lastOp' = "clear_data_store"
    /\ UNCHANGED <<id_counters, file, phase, console, post, sent, emits,
                   returned, nclears, lastSaved, saveFailed, db, deleted>>

(* app.py:128: add_sync_log('All data cleared', 'warn') *)
clear_data_log(t) ==
    /\ phase = "serving"
    /\ pc[t] = "clear_log"
    /\ hotel_data' = add_sync_log(hotel_data, "All data cleared", "warn", Now)
    /\ pc' = [pc EXCEPT ![t] = "clear_emit"]
    /\ post' = [post EXCEPT ![t] = hotel_data']
    /\ steps' = [steps EXCEPT ![t] = Append(@, "log")]
    /\ lastOp' = "add_sync_log"
    /\ UNCHANGED <<id_counters, file, phase, console, nreq, pre, sent, emits,
                   reads, returned, nclears, lastSaved, saveFailed, db, deleted>>

(* app.py:129 and 79: broadcast_update() emits data_update with hotel_data *)
broadcast_update_emit(t) ==
    /\ phase = "serving"
    /\ pc[t] = "clear_emit"
    /\ sent' = [sent EXCEPT ![t] = hotel_data]
    /\ emits' = [emits EXCEPT ![t] = @ + 1]
    /\ pc' = [pc EXCEPT ![t] = "clear_save"]
    /\ steps' = [steps EXCEPT ![t] = Append(@, "emit")]
    /\ lastOp' = "emit"
    /\ UNCHANGED <<hotel_data, id_counters, file, phase, console, nreq, pre,
                   post, reads, returned, nclears, lastSaved, saveFailed, db, deleted>>

(* app.py:80: broadcast_update() then calls save_data() *)
broadcast_update_save(t) ==
    /\ phase = "serving"
    /\ pc[t] = "clear_save"
    /\ \E outcome \in SaveOutcomes :
          /\ save_data(outcome)
          /\ saveFailed' = [saveFailed EXCEPT ![t] = outcome # "ok"]
    /\ pc' = [pc EXCEPT ![t] = "clear_return"]
    /\ steps' = [steps EXCEPT ![t] = Append(@, "save")]
    /\ lastOp' = "save_data"
    /\ UNCHANGED <<hotel_data, id_counters, phase, nreq, pre, post, sent,
                   emits, reads, returned, nclears, db, deleted>>

(* app.py:130: the response {'success': True}, 200; the request is over *)
clear_data_return(t) ==
    /\ phase = "serving"
    /\ pc[t] = "clear_return"
    /\ pc' = [pc EXCEPT ![t] = "idle"]
    /\ nclears' = nclears + 1
    /\ pre' = [pre EXCEPT ![t] = INITIAL_DATA]
    /\ post' = [post EXCEPT ![t] = INITIAL_DATA]
    /\ sent' = [sent EXCEPT ![t] = INITIAL_DATA]
    /\ emits' = [emits EXCEPT ![t] = 0]
    /\ steps' = [steps EXCEPT ![t] = <<>>]
    /\ reads' = [reads EXCEPT ![t] = NoRead]
    /\ lastOp' = "clear_data_return"
    /\ saveFailed' = [saveFailed EXCEPT ![t] = FALSE]
    /\ UNCHANGED <<hotel_data, id_counters, file, phase, console, nreq, returned,
                   lastSaved, db, deleted>>

-----------------------------------------------------------------------------
(* Snapshot reads.  Each is served by a thread of its own and reads the    *)
(* global hotel_data as it is at that moment.                              *)

Snapshot(op) ==
    /\ phase = "serving"
    /\ nreq < MaxRequests
    /\ nreq' = nreq + 1
    /\ reads' = [t \in Threads |->
                    IF pc[t] # "idle" THEN [taken |-> TRUE, snap |-> hotel_data]
                    ELSE reads[t]]
    /\ lastOp' = op
    /\ UNCHANGED <<hotel_data, id_counters, file, phase, pc, console, pre,
                   post, sent, emits, steps, returned, nclears, lastSaved, saveFailed, db, deleted>>

(* GET /api/data, app.py:104-107 *)
get_data == Snapshot("get_data")

(* Socket.IO connect, app.py:134-137: the snapshot goes to the new client *)
handle_connect == Snapshot("handle_connect")

-----------------------------------------------------------------------------
(* The helpers as called, between requests, by the handlers that create    *)
(* and update entities.                                                    *)

Quiescent == \A t \in Threads : pc[t] = "idle"

LogInputs == {<<"Guest added", "info">>, <<"Save failed", "error">>}

add_sync_log_call ==
    /\ phase = "serving"
    /\ Quiescent
    /\ nreq < MaxRequests
    /\ nreq' = nreq + 1
    /\ \E in \in LogInputs :
          hotel_data' = add_sync_log(hotel_data, in[1], in[2], Now)
    /\ lastOp' = "add_sync_log"
    /\ UNCHANGED <<id_counters, file, phase, pc, console, pre, post, sent,
                   emits, steps, reads, returned, nclears, lastSaved, saveFailed, db, deleted>>

save_data_call ==
    /\ phase = "serving"
    /\ Quiescent
    /\ nreq < MaxRequests
    /\ nreq' = nreq + 1
    /\ \E outcome \in SaveOutcomes : save_data(outcome)
    /\ lastOp' = "save_data"
    /\ UNCHANGED <<hotel_data, id_counters, phase, pc, pre, post, sent, emits, steps,
                   reads, returned, nclears, saveFailed, db, deleted>>

get_next_id(entity) ==
    /\ phase = "serving"
    /\ Quiescent
    /\ nreq < MaxRequests
    /\ nreq' = nreq + 1
    /\ returned' = [returned EXCEPT ![entity] =
                       Append(@, [id |-> id_counters[entity], clears |-> nclears])]
    /\ id_counters' = get_next_id_counters(id_counters, entity)
    /\ lastOp' = "get_next_id"
    /\ UNCHANGED <<hotel_data, file, phase, pc, console, pre, post, sent,
                   emits, steps, reads, nclears, lastSaved, saveFailed, db, deleted>>

-----------------------------------------------------------------------------
(* The process stops (at any point, also inside a request) and is started  *)
(* again: the module body runs anew, app.py:20-49, and load_data follows.  *)
(* Only the file survives.                                                 *)
Restart ==
    /\ phase = "serving"
    /\ nreq < MaxRequests
    /\ nreq' = nreq + 1
    /\ hotel_data' = INITIAL_DATA
    /\ id_counters' = InitialCounters
    /\ phase' = "boot"
    /\ pc' = [t \in Threads |-> "idle"]
    /\ console' = {}
    /\ pre' = [t \in Threads |-> INITIAL_DATA]
    /\ post' = [t \in Threads |-> INITIAL_DATA]
    /\ sent' = [t \in Threads |-> INITIAL_DATA]
    /\ emits' = [t \in Threads |-> 0]
    /\ steps' = [t \in Threads |-> <<>>]
    /\ reads' = [t \in Threads |-> NoRead]
    /\ returned' = [e \in Entities |-> <<>>]
    /\ nclears' = 0
    /\ lastOp' = "import"
    /\ saveFailed' = [t \in Threads |-> FALSE]
    /\ UNCHANGED <<file, lastSaved, db, deleted>>

Next ==
    \/ load_data
    \/ \E t \in Threads : clear_data_store(t)
    \/ \E t \in Threads : clear_data_log(t)
    \/ \E t \in Threads : broadcast_update_emit(t)
    \/ \E t \in Threads : broadcast_update_save(t)
    \/ \E t \in Threads : clear_data_return(t)
    \/ get_data
    \/ handle_connect
    \/ add_sync_log_call
    \/ save_data_call
    \/ \E entity \in InputEntities : get_next_id(entity)
    \/ Restart

Spec == Init /\ [][Next]_vars

-----------------------------------------------------------------------------
(* The guest relationships of src/api/models.py.  A table is a set of      *)
(* rows; guest_id NoGuest is SQL NULL (Room.guest_id is nullable, the      *)
(* guest_id of a Transaction or LoyaltyTransaction is not).                *)

NoGuest == 0

GuestIds == 1..MaxGuests
RowIds == 1..MaxRows

(* Faulty variant: the relationship has no delete cascade and the column   *)
(* keeps its value, so the guest's transactions outlive the guest.         *)
transactions_kept(rows, guest) == rows

(* Guest.transactions, cascade="all, delete-orphan": the guest's           *)
(* transactions are deleted with the guest                                 *)
transactions_cascade(rows, guest) == {r \in rows : r.guest_id # guest}

(* Guest.loyalty_transactions, cascade="all, delete-orphan" *)
loyalty_transactions_cascade(rows, guest) == {r \in rows : r.guest_id # guest}

(* Guest.room, a one-to-many relationship over Room.guest_id with no       *)
(* delete cascade: when the guest is deleted the unit of work sets the     *)
(* guest_id of its rooms to NULL; the room row and its status stay         *)
room_nullify(rows, guest) ==
    {IF r.guest_id = guest THEN [r EXCEPT !.guest_id = NoGuest] ELSE r : r \in rows}

References(rows, guest) == Cardinality({r \in rows : r.guest_id = guest})

(* delete(Guest, id) of the Entity Store: the guest row is deleted through *)
(* the session and the relationships above decide what happens to the rows *)
(* that reference it.                                                      *)
delete_guest(guest) ==
    /\ guest \in db.guests
    /\ db' = [guests |-> db.guests \ {guest},
              rooms |-> room_nullify(db.rooms, guest),
              transactions |-> transactions_cascade(db.transactions, guest),
              loyalty_transactions |->
                  loyalty_transactions_cascade(db.loyalty_transactions, guest)]
    /\ deleted' = deleted \cup
                     {[guest |-> guest,
                       rooms |-> References(db.rooms, guest),
                       transactions |-> References(db.transactions, guest),
                       loyalty_transactions |->
                           References(db.loyalty_transactions, guest)]}
    /\ UNCHANGED appVars

(* Rows whose guest_id is drawn by f; a row with no guest is left out when *)
(* the column is NOT NULL                                                  *)
RowsOf(f, nullable) ==
    {[id |-> i, guest_id |-> f[i]] : i \in {j \in RowIds : nullable \/ f[j] # NoGuest}}

(* Any database whose foreign keys all point at existing guests *)
InitDB ==
    /\ hotel_data = INITIAL_DATA
    /\ id_counters = InitialCounters
    /\ file = NoFile
    /\ phase = "boot"
    /\ pc = [t \in Threads |-> "idle"]
    /\ console = {}
    /\ nreq = 0
    /\ pre = [t \in Threads |-> INITIAL_DATA]
    /\ post = [t \in Threads |-> INITIAL_DATA]
    /\ sent = [t \in Threads |-> INITIAL_DATA]
    /\ emits = [t \in Threads |-> 0]
    /\ steps = [t \in Threads |-> <<>>]
    /\ reads = [t \in Threads |-> NoRead]
    /\ returned = [e \in Entities |-> <<>>]
    /\ nclears = 0
    /\ lastOp = "import"
    /\ lastSaved = NotSaved
    /\ saveFailed = [t \in Threads |-> FALSE]
    /\ deleted = {}
    /\ \E guests \in SUBSET GuestIds :
          \E fr \in [RowIds -> guests \cup {NoGuest}],
             ft \in [RowIds -> guests \cup {NoGuest}],
             fl \in [RowIds -> guests \cup {NoGuest}] :
             db = [guests |-> guests,
                   rooms |-> RowsOf(fr, TRUE),
                   transactions |-> RowsOf(ft, FALSE),
                   loyalty_transactions |-> RowsOf(fl, FALSE)]

NextDB == \E guest \in GuestIds : delete_guest(guest)

SpecDB == InitDB /\ [][NextDB]_vars

-----------------------------------------------------------------------------
(* C1: every id get_next_id returns is strictly greater than every id it   *)
(* returned before for that entity type in this process, and no step of    *)
(* clear_data changes id_counters, so ids go on from the prior counter     *)
(* after a clear.                                                          *)
C1_IdsStrictlyIncrease ==
    [][/\ \A e \in Entities :
             Len(returned'[e]) = Len(returned[e]) + 1 =>
                \A i \in 1..Len(returned[e]) :
                   returned'[e][Len(returned'[e])].id > returned[e][i].id
       /\ (phase = "serving" /\ phase' = "serving" /\ pc' # pc) =>
             id_counters' = id_counters]_vars

(* An id is assigned, clear_data runs, and a further id is assigned *)
C1_Witness ==
    \E e \in Entities :
       /\ Len(returned[e]) >= 2
       /\ returned[e][2].clears > returned[e][1].clears
       /\ returned[e][2].id > returned[e][1].id

(* C2: at the end of every clear_data exactly one data_update has been     *)
(* emitted for it, and its payload is the store as it was after that       *)
(* call's own update and sync-log append.                                  *)
C2_OneBroadcastOfPostState ==
    \A t \in Threads :
       pc[t] = "clear_return" => emits[t] = 1 /\ sent[t] = post[t]

(* C3: when clear_data is done, roomTypes, taxSettings and stopSell are    *)
(* what they were when it began and every other collection, the sync log   *)
(* included, is empty.                                                     *)
C3_ClearKeepsSettings ==
    \A t \in Threads :
       pc[t] = "clear_return" =>
          /\ hotel_data.roomTypes = pre[t].roomTypes
          /\ hotel_data.taxSettings = pre[t].taxSettings
          /\ hotel_data.stopSell = pre[t].stopSell
          /\ \A c \in {"rooms", "guests", "reservations", "transactions",
                       "loyaltyTransactions", "walkInTransactions", "orders",
                       "employees", "maintenanceRequests", "syncLog"} :
                hotel_data[c] = <<>>

(* C4: the sync log never holds more than MaxSyncLog entries, and an       *)
(* add_sync_log puts the new entry first, keeps the others in their order  *)
(* and, on a full log, drops the last (oldest) one.                        *)
C4_SyncLogBounded ==
    /\ [](Len(hotel_data.syncLog) <= MaxSyncLog)
    /\ [][lastOp' = "add_sync_log" =>
             LET old == hotel_data.syncLog
                 new == hotel_data'.syncLog
             IN /\ Len(new) = Min(Len(old) + 1, MaxSyncLog)
                /\ new[1].timestamp = Now
                /\ \A i \in 2..Len(new) : new[i] = old[i - 1]]_vars

(* add_sync_log ran on the full log loaded at startup: the new entry is    *)
(* first and the log's former last entry is gone                           *)
C4_Witness ==
    /\ lastOp = "add_sync_log"
    /\ Len(hotel_data.syncLog) = MaxSyncLog
    /\ hotel_data.syncLog[1].message = "Guest added"
    /\ hotel_data.syncLog[2] = LogOf(MaxSyncLog)[1]
    /\ hotel_data.syncLog[MaxSyncLog] = LogOf(MaxSyncLog)[MaxSyncLog - 1]

C6_SnapshotPreOrPost ==
    \A t \in Threads :
       (reads[t].taken /\ pc[t] \in {"clear_emit", "clear_save", "clear_return"}) =>
          reads[t].snap \in {pre[t], post[t]}

(* C8: the steps of a clear_data are store, log, save, emit in that order, *)
(* so no snapshot is emitted before it has been saved.                     *)
IsPrefix(s, u) == Len(s) <= Len(u) /\ \A i \in 1..Len(s) : s[i] = u[i]

C8_SaveBeforeEmit ==
    \A t \in Threads : IsPrefix(steps[t], <<"store", "log", "save", "emit">>)

(* C9: at most one clear_data is in flight at any time, and every          *)
(* data_update it emits carries the store of a completed update: its own   *)
(* 'All data cleared' entry is the newest entry of the payload's log.      *)
C9_MutationsSerialized ==
    /\ Cardinality({t \in Threads : pc[t] # "idle"}) <= 1
    /\ \A t \in Threads :
          emits[t] > 0 =>
             /\ sent[t].syncLog # <<>>
             /\ sent[t].syncLog[1] = post[t].syncLog[1]

(* C10: load_data on a file that cannot be deserialized does not raise,    *)
(* leaves the empty initial store and the initial counters, and prints     *)
(* the failure.                                                            *)
C10_LoadFallback ==
    (lastOp = "load_data" /\ file.kind \in {"unreadable", "nonobject"}) =>
       /\ phase = "serving"
       /\ hotel_data = INITIAL_DATA
       /\ id_counters = InitialCounters
       /\ "Error loading data" \in console

(* load_data has run on a file it could not deserialize *)
C10_Witness ==
    /\ lastOp = "load_data"
    /\ file.kind \in {"unreadable", "nonobject"}
    /\ "Error loading data" \in console

C11_WriteFailureSurfaced ==
    \A t \in Threads :
       (pc[t] = "clear_return" /\ saveFailed[t]) =>
          /\ \A c \in {"rooms", "guests", "reservations", "transactions",
                       "loyaltyTransactions", "walkInTransactions", "orders",
                       "employees", "maintenanceRequests"} :
                hotel_data[c] = <<>>
          /\ "Error saving data" \in console
          /\ \E i \in 1..Len(hotel_data.syncLog) :
                hotel_data.syncLog[i].level = "error"

====
